---- MODULE Spec2Model ----
(***************************************************************************)
(* Model of src/app.py: the POST /scrape handler, the video-ID resolver    *)
(* extract_video_id and the paginated comment adapter                      *)
(* scrape_tiktok_comments.                                                 *)
(*                                                                         *)
(* Python strings are sequences of one-character strings, so that strip,   *)
(* lstrip, lower, the "in" test and the regular expressions are computed   *)
(* on characters.  The request's fields are strings, as ScrapeRequest      *)
(* declares them.                                                          *)
(***************************************************************************)
EXTENDS Integers, Sequences, FiniteSets, TLC

(* ------------------------------ bounds -------------------------------- *)
\* most records on one page of the comment endpoint
MaxPageLen == 2
\* most records the comment endpoint hands out during one request
MaxFetched == 5
\* most tokens of a generated URL (specification SpecExtract)
MaxTokens == 4

(* --------------------------- Python strings --------------------------- *)
Digits == {"0", "1", "2", "3", "4", "5", "6", "7", "8", "9"}

Whitespace == {" ", "\t", "\n", "\r"}

UpperChars == <<"A", "B", "C", "D", "E", "F", "G", "H", "I", "J", "K", "L", "M",
                "N", "O", "P", "Q", "R", "S", "T", "U", "V", "W", "X", "Y", "Z">>

LowerChars == <<"a", "b", "c", "d", "e", "f", "g", "h", "i", "j", "k", "l", "m",
                "n", "o", "p", "q", "r", "s", "t", "u", "v", "w", "x", "y", "z">>

\* str.lower() on one character
LowerChar(c) ==
    IF \E k \in 1..Len(UpperChars) : UpperChars[k] = c
    THEN LowerChars[CHOOSE k \in 1..Len(UpperChars) : UpperChars[k] = c]
    ELSE c

\* faulty variant of Lower: the case is kept
LowerKeepsCase(s) == s

\* str.lower()
Lower(s) == [k \in 1..Len(s) |-> LowerChar(s[k])]

\* does pat occur in s at position k
MatchAt(s, pat, k) ==
    /\ k >= 1
    /\ k + Len(pat) - 1 <= Len(s)
    /\ SubSeq(s, k, k + Len(pat) - 1) = pat

\* Python's "pat in s"
Contains(s, pat) == \E k \in 1..(Len(s) + 1) : MatchAt(s, pat, k)

RECURSIVE LStripSet(_, _)
LStripSet(s, chars) ==
    IF s # <<>> /\ Head(s) \in chars THEN LStripSet(Tail(s), chars) ELSE s

RECURSIVE RStripSet(_, _)
RStripSet(s, chars) ==
    IF s # <<>> /\ s[Len(s)] \in chars
    THEN RStripSet(SubSeq(s, 1, Len(s) - 1), chars)
    ELSE s

\* str.strip()
Strip(s) == RStripSet(LStripSet(s, Whitespace), Whitespace)

\* data['username'].strip().lstrip('@')
StripUsername(s) == LStripSet(Strip(s), {"@"})

(* ------------------------- extract_video_id --------------------------- *)
\* None (also what "not video_id" takes an empty ID for; \d+ captures no
\* empty string, so no extracted ID is the empty sequence)
None == <<>>

VideoSeg == <<"/", "v", "i", "d", "e", "o", "/">>

TikTokCom == <<"t", "i", "k", "t", "o", "k", ".", "c", "o", "m">>

VmHost == <<"v", "m", ".">> \o TikTokCom

VtHost == <<"v", "t", ".">> \o TikTokCom

\* the greedy (\d+) from position k on
RECURSIVE TakeDigits(_, _)
TakeDigits(s, k) ==
    IF k <= Len(s) /\ s[k] \in Digits
    THEN <<s[k]>> \o TakeDigits(s, k + 1)
    ELSE <<>>

\* faulty variant of SearchVideo: the group (\d) captures one digit
RECURSIVE SearchVideoOneDigit(_, _)
SearchVideoOneDigit(url, k) ==
    IF k > Len(url) THEN None
    ELSE IF MatchAt(url, VideoSeg, k) /\ TakeDigits(url, k + Len(VideoSeg)) # <<>>
         THEN <<url[k + Len(VideoSeg)]>>
         ELSE SearchVideoOneDigit(url, k + 1)

\* re.search(r'/video/(\d+)', url) trying the start positions k, k+1, ...:
\* group(1) of the leftmost match, None without a match
RECURSIVE SearchVideo(_, _)
SearchVideo(url, k) ==
    IF k > Len(url) THEN None
    ELSE IF MatchAt(url, VideoSeg, k) /\ TakeDigits(url, k + Len(VideoSeg)) # <<>>
         THEN TakeDigits(url, k + Len(VideoSeg))
         ELSE SearchVideo(url, k + 1)

\* the lazy .*?/(\d+) from position j on: the first "/" followed by a digit,
\* reached over characters other than the newline
RECURSIVE LazySlashDigits(_, _)
LazySlashDigits(url, j) ==
    IF j > Len(url) THEN None
    ELSE IF url[j] = "/" /\ TakeDigits(url, j + 1) # <<>>
         THEN TakeDigits(url, j + 1)
         ELSE IF url[j] = "\n" THEN None
              ELSE LazySlashDigits(url, j + 1)

\* re.search(r'tiktok\.com/.*?/(\d+)', url) from start position k on
RECURSIVE SearchTikTok(_, _)
SearchTikTok(url, k) ==
    IF k > Len(url) THEN None
    ELSE IF /\ MatchAt(url, TikTokCom \o <<"/">>, k)
            /\ LazySlashDigits(url, k + Len(TikTokCom) + 1) # None
         THEN LazySlashDigits(url, k + Len(TikTokCom) + 1)
         ELSE SearchTikTok(url, k + 1)

\* the loop over patterns: the first pattern that matches decides
MatchPatterns(url) ==
    IF SearchVideo(url, 1) # None THEN SearchVideo(url, 1)
    ELSE SearchTikTok(url, 1)

\* the short-link test
IsShortLink(url) == Contains(url, VmHost) \/ Contains(url, VtHost)

\* does extract_video_id(url) send the HEAD request
NeedsHead(url) == MatchPatterns(url) = None /\ IsShortLink(url)

\* extract_video_id(url); head is the outcome of requests.head (an exception,
\* which the bare except swallows, or the final URL), read only when
\* NeedsHead(url)
ExtractVideoId(url, head) ==
    IF MatchPatterns(url) # None THEN MatchPatterns(url)
    ELSE IF IsShortLink(url)
         THEN IF head.raises THEN None ELSE SearchVideo(head.url, 1)
         ELSE None

(* ------------------------------ JSON values -------------------------- *)
\* A JSON value of a field: t is "absent" (no such key), "null", "num" or
\* "str"; v holds the characters of a string, or the decimal digits of a
\* number.
Absent == [t |-> "absent", v |-> <<>>]

Null == [t |-> "null", v |-> <<>>]

Str(s) == [t |-> "str", v |-> s]

Num(digits) == [t |-> "num", v |-> digits]

\* dict.get(key, default)
Get(field, default) == IF field.t = "absent" THEN default ELSE field

\* Python's truth value of a JSON value
Truthy(x) ==
    \/ x.t = "str" /\ x.v # <<>>
    \/ x.t = "num" /\ x.v # <<"0">>

\* x or y
Or(x, y) == IF Truthy(x) THEN x ELSE y

(* ------------------- the comment loop's body, per record -------------- *)
\* does int(create_time) succeed
IntParses(x) ==
    \/ x.t = "num"
    \/ x.t = "str" /\ x.v # <<>> /\ \A k \in 1..Len(x.v) : x.v[k] \in Digits

\* lines 102-107: None for a falsy create_time; kind "datetime", the text
\* strftime gives for the epoch v, when int() takes the value (the epochs of
\* the inputs are in fromtimestamp's range); kind "str", str(create_time),
\* when int() raises
Timestamp(create_time) ==
    IF ~Truthy(create_time) THEN [t |-> "none", v |-> <<>>]
    ELSE IF IntParses(create_time) THEN [t |-> "datetime", v |-> create_time.v]
    ELSE [t |-> "str", v |-> create_time.v]

\* the dict appended at lines 109-113
OutComment(comment) ==
    [text |-> Get(comment.text, Str(<<>>)),
     likes |-> Get(comment.digg_count, Num(<<"0">>)),
     timestamp |-> Timestamp(Get(comment.create_time, Num(<<"0">>)))]

\* line 93: user.get('unique_id', '') or user.get('nickname', '')
AuthorName(user) == Or(Get(user.unique_id, Str(<<>>)), Get(user.nickname, Str(<<>>)))

\* does the body of the inner try raise for this record: comment or user is
\* no mapping (.get fails), or the name is no string (.lower fails)
RecordRaises(comment) ==
    \/ ~comment.dict
    \/ comment.user.t = "null"
    \/ AuthorName(comment.user).t # "str"

\* faulty variant of ProcessRecord: the nickname is compared first
ProcessRecordNicknameFirst(comment, target) ==
    IF RecordRaises(comment) THEN <<>>
    ELSE IF Lower(Or(Get(comment.user.nickname, Str(<<>>)),
                     Get(comment.user.unique_id, Str(<<>>))).v) = Lower(target)
         THEN <<OutComment(comment)>>
         ELSE <<>>

\* lines 91-115 for one record: what it appends to comments_found
ProcessRecord(comment, target) ==
    IF RecordRaises(comment) THEN <<>>
    ELSE IF Lower(AuthorName(comment.user).v) = Lower(target)
         THEN <<OutComment(comment)>>
         ELSE <<>>

\* faulty variant of ProcessPage: a record that raises ends the page
RECURSIVE ProcessPageAborts(_, _)
ProcessPageAborts(comments_list, target) ==
    IF comments_list = <<>> THEN <<>>
    ELSE IF RecordRaises(Head(comments_list)) THEN <<>>
         ELSE ProcessRecord(Head(comments_list), target)
                \o ProcessPageAborts(Tail(comments_list), target)

\* lines 90-115: the for loop over one page's records
RECURSIVE ProcessPage(_, _)
ProcessPage(comments_list, target) ==
    IF comments_list = <<>> THEN <<>>
    ELSE ProcessRecord(Head(comments_list), target)
           \o ProcessPage(Tail(comments_list), target)

(* ------------------------------ the inputs ---------------------------- *)
Https == <<"h", "t", "t", "p", "s", ":", "/", "/">>

Www == <<"w", "w", "w", ".">>

Bob == <<"B", "o", "b">>

Hi == <<"h", "i">>

\* "https://www.tiktok.com/@alice/video/1234567890"
UrlCanonical ==
    Https \o Www \o TikTokCom \o <<"/", "@", "a", "l", "i", "c", "e">> \o VideoSeg
      \o <<"1", "2", "3", "4", "5", "6", "7", "8", "9", "0">>

\* " https://vm.tiktok.com/ZM ": a short link, padded with blanks
UrlShort == <<" ">> \o Https \o VmHost \o <<"/", "Z", "M", " ">>

\* "http://x.com/video/12": an ID, but not the platform's domain
UrlForeign == <<"h", "t", "t", "p", ":", "/", "/", "x", ".", "c", "o", "m">> \o VideoSeg \o <<"1", "2">>

\* "https://www.tiktok.com/": the domain, no ID, no short link
UrlNoId == Https \o Www \o TikTokCom \o <<"/">>

\* the video_url values of the requests
VideoUrls == {UrlCanonical, UrlShort, UrlForeign, UrlNoId, <<" ", "\t">>, <<>>}

\* the username values of the requests
Usernames == {<<"@">> \o Bob, <<" ", "@">>, <<"@", " ">>, <<>>}

\* what request.get_json() returns: None (null), or an object with or
\* without each of the two keys (extra: the object holds some other key)
Bodies ==
    {[null |-> TRUE, video_url |-> Absent, username |-> Absent, extra |-> FALSE]}
    \cup {[null |-> FALSE, video_url |-> Absent, username |-> Absent, extra |-> e] :
             e \in BOOLEAN}
    \cup {[null |-> FALSE, video_url |-> vu, username |-> un, extra |-> FALSE] :
             vu \in {Absent} \cup {Str(u) : u \in VideoUrls},
             un \in {Absent} \cup {Str(n) : n \in Usernames}}

\* the outcomes of requests.head(url, allow_redirects=True, timeout=5): an
\* exception, or a response with its final URL
HeadOutcomes ==
    {[sent |-> TRUE, raises |-> TRUE, url |-> <<>>],
     [sent |-> TRUE, raises |-> FALSE,
      url |-> Https \o Www \o TikTokCom \o <<"/", "@", "a">> \o VideoSeg \o <<"7", "7">>],
     [sent |-> TRUE, raises |-> FALSE,
      url |-> Https \o Www \o TikTokCom \o <<"/", "@", "a", "/", "7", "7">>]}

\* no HEAD request was sent
NoHead == [sent |-> FALSE, raises |-> FALSE, url |-> <<>>]

\* a raw comment: dict is whether the list element is a mapping; user.t is
\* "dict", "absent" (no 'user' key) or "null" (the value is no mapping)
RawComment(isdict, usert, uid, nick, text, likes, ctime) ==
    [dict |-> isdict,
     user |-> [t |-> usert, unique_id |-> uid, nickname |-> nick],
     text |-> text, digg_count |-> likes, create_time |-> ctime]

\* unique_id "bob", text "hi"
RecBobHi ==
    RawComment(TRUE, "dict", Str(<<"b", "o", "b">>), Str(<<"z">>), Str(Hi),
               Num(<<"3">>), Num(<<"1", "7">>))

\* empty unique_id, nickname "BOB", no text, no like count, no time
RecNickNoText ==
    RawComment(TRUE, "dict", Str(<<>>), Str(<<"B", "O", "B">>), Absent, Absent, Absent)

\* unique_id "al", nickname "bob"
RecOther ==
    RawComment(TRUE, "dict", Str(<<"a", "l">>), Str(<<"b", "o", "b">>), Str(<<"n", "o">>),
               Num(<<"0">>), Str(<<"x">>))

\* the user value is null
RecUserNull == RawComment(TRUE, "null", Absent, Absent, Str(Hi), Absent, Absent)

\* the records the comment endpoint serves
RawComments == {RecBobHi, RecNickNoText, RecOther, RecUserNull}

\* the sequences over S of length at most n
SeqsUpTo(S, n) == UNION {[1..k -> S] : k \in 0..n}

\* the outcomes of one requests.get on the comment endpoint and of reading
\* its JSON: "timeout" (requests.get raises), "status" (a status other than
\* 200), "badjson" (response.json() raises), "notdict" (the JSON is no
\* object, or its comments cannot be iterated: the outer except takes it
\* before a record is appended), "ok" (comments: data.get('comments', []))
FailedResponse(kind) ==
    [kind |-> kind, comments |-> <<>>, has_more |-> "absent", cursor |-> 0]

Failures == {"timeout", "status", "badjson", "notdict"}

Responses(records, len) ==
    {FailedResponse(k) : k \in Failures}
    \cup {[kind |-> "ok", comments |-> c, has_more |-> h, cursor |-> 0] :
             c \in SeqsUpTo(records, len), h \in {"false", "absent"}}
    \cup {[kind |-> "ok", comments |-> c, has_more |-> "true", cursor |-> 20] :
             c \in SeqsUpTo(records, len)}

(* ------------------------------ the state ----------------------------- *)
VARIABLES
    pc,              \* where the server is: "idle", "scrape", "resolve", "loop", "done"
    data,            \* scrape: request.get_json()
    video_url,       \* scrape: data['video_url'].strip()
    username,        \* scrape: data['username'].strip().lstrip('@')
    video_id,        \* scrape_tiktok_comments: extract_video_id(video_url)
    i,               \* the next value of range(max_iterations)
    cursor,          \* scrape_tiktok_comments: the cursor of the next request
    comments_found,  \* scrape_tiktok_comments: the matches so far
    resp,            \* the response of POST /scrape
    fetched,         \* history: the records of the pages processed, in order
    last,            \* history: the outcome of the latest requests.get
    head_result,     \* history: the outcome of requests.head, if it was called
    heads,           \* history: number of requests.head calls
    gets,            \* history: number of requests.get calls
    adapter          \* history: scrape_tiktok_comments was called

vars == <<pc, data, video_url, username, video_id, i, cursor, comments_found,
          resp, fetched, last, head_result, heads, gets, adapter>>

max_iterations == 5

NoResponse == [kind |-> "none", comments |-> <<>>, has_more |-> "absent", cursor |-> 0]

\* no response sent yet
NoResp ==
    [status |-> 0, keys |-> {}, success |-> FALSE, error |-> <<>>, username |-> <<>>,
     video_url |-> <<>>, comments |-> <<>>, count |-> 0]

\* jsonify({'error': msg}), 400
Resp400(msg) == [NoResp EXCEPT !.status = 400, !.keys = {"error"}, !.error = <<msg>>]

\* lines 197-201: jsonify({'success': False, 'error': str(e)}), 500
Resp500(msg) ==
    [NoResp EXCEPT !.status = 500, !.keys = {"success", "error"}, !.error = msg]

\* lines 188-195
Resp200(name, url, comments) ==
    [status |-> 200,
     keys |-> {"success", "username", "video_url", "comments", "count", "message"},
     success |-> TRUE, error |-> <<>>, username |-> name, video_url |-> url,
     comments |-> comments, count |-> Len(comments)]

(* ------------------------------ POST /scrape -------------------------- *)
\* "not data"
Falsy(d) == d.null \/ (d.video_url.t = "absent" /\ d.username.t = "absent" /\ ~d.extra)

\* faulty variant of ValidationError: the domain test is left out
ValidationErrorNoDomain(d) ==
    IF Falsy(d) THEN "No JSON data provided"
    ELSE IF d.video_url.t = "absent" THEN "Missing video_url in request body"
    ELSE IF d.username.t = "absent" THEN "Missing username in request body"
    ELSE IF Strip(d.video_url.v) = <<>> THEN "video_url cannot be empty"
    ELSE IF StripUsername(d.username.v) = <<>> THEN "username cannot be empty"
    ELSE ""

\* faulty variant of ValidationError: the values are tested before trimming
ValidationErrorNoStrip(d) ==
    IF Falsy(d) THEN "No JSON data provided"
    ELSE IF d.video_url.t = "absent" THEN "Missing video_url in request body"
    ELSE IF d.username.t = "absent" THEN "Missing username in request body"
    ELSE IF d.video_url.v = <<>> THEN "video_url cannot be empty"
    ELSE IF d.username.v = <<>> THEN "username cannot be empty"
    ELSE IF ~Contains(Strip(d.video_url.v), TikTokCom)
         THEN "Invalid TikTok URL. Must contain tiktok.com"
    ELSE ""

\* lines 163-183: the error of the first test that fails, "" when all pass
ValidationError(d) ==
    IF Falsy(d) THEN "No JSON data provided"
    ELSE IF d.video_url.t = "absent" THEN "Missing video_url in request body"
    ELSE IF d.username.t = "absent" THEN "Missing username in request body"
    ELSE IF Strip(d.video_url.v) = <<>> THEN "video_url cannot be empty"
    ELSE IF StripUsername(d.username.v) = <<>> THEN "username cannot be empty"
    ELSE IF ~Contains(Strip(d.video_url.v), TikTokCom)
         THEN "Invalid TikTok URL. Must contain tiktok.com"
    ELSE ""

\* scrape(), lines 160-186: validate the body; answer 400, or go on to call
\* scrape_tiktok_comments(video_url, username)
Scrape ==
    /\ pc = "scrape"
    /\ IF ValidationError(data) # ""
       THEN /\ pc' = "done"
            /\ resp' = Resp400(ValidationError(data))
       ELSE /\ pc' = "resolve"
            /\ resp' = resp
    /\ IF data.video_url.t = "str" /\ data.username.t = "str" /\ ~Falsy(data)
       THEN /\ video_url' = Strip(data.video_url.v)
            /\ username' = StripUsername(data.username.v)
       ELSE UNCHANGED <<video_url, username>>
    /\ UNCHANGED <<data, video_id, i, cursor, comments_found, fetched, last,
                   head_result, heads, gets, adapter>>

CouldNotExtract == "Could not extract video ID from URL. Make sure URL is valid."

\* line 132: f"Error scraping comments: {str(e)}"
Wrapped(msg) == <<"Error scraping comments: ", msg>>

\* faulty variant of Resolve: the "if not video_id" test is left out
ResolveUnchecked ==
    /\ pc = "resolve"
    /\ \E head \in IF NeedsHead(video_url) THEN HeadOutcomes ELSE {NoHead} :
          /\ video_id' = ExtractVideoId(video_url, head)
          /\ head_result' = head
          /\ heads' = IF NeedsHead(video_url) THEN heads + 1 ELSE heads
          /\ pc' = "loop"
          /\ UNCHANGED resp
    /\ adapter' = TRUE
    /\ i' = 0
    /\ cursor' = 0
    /\ comments_found' = <<>>
    /\ UNCHANGED <<data, video_url, username, fetched, last, gets>>

\* scrape_tiktok_comments, lines 49-65, with extract_video_id: resolve the
\* video ID (sending the HEAD request of a short link); without an ID the
\* exception of line 52 is wrapped at line 132 and answered at lines 197-201
Resolve ==
    /\ pc = "resolve"
    /\ \E head \in IF NeedsHead(video_url) THEN HeadOutcomes ELSE {NoHead} :
          /\ video_id' = ExtractVideoId(video_url, head)
          /\ head_result' = head
          /\ heads' = IF NeedsHead(video_url) THEN heads + 1 ELSE heads
          /\ IF ExtractVideoId(video_url, head) = None
             THEN /\ pc' = "done"
                  /\ resp' = Resp500(Wrapped(CouldNotExtract))
             ELSE /\ pc' = "loop"
                  /\ resp' = resp
    /\ adapter' = TRUE
    /\ i' = 0
    /\ cursor' = 0
    /\ comments_found' = <<>>
    /\ UNCHANGED <<data, video_url, username, fetched, last, gets>>

\* does the loop body reach line 122 (no break) on this response
Continues(r) == r.kind = "ok" /\ r.comments # <<>> /\ r.has_more = "true"

\* faulty variant of LoopStep: a failed request raises out of the loop
LoopStepRaises(rs) ==
    /\ pc = "loop"
    /\ \E r \in rs :
          /\ Len(fetched) + Len(r.comments) <= MaxFetched
          /\ last' = r
          /\ gets' = gets + 1
          /\ i' = i + 1
          /\ comments_found' = comments_found \o ProcessPage(r.comments, username)
          /\ fetched' = fetched \o r.comments
          /\ cursor' = IF Continues(r) THEN r.cursor ELSE cursor
          /\ IF r.kind \in Failures
             THEN /\ pc' = "done"
                  /\ resp' = Resp500(Wrapped(r.kind))
             ELSE IF Continues(r) /\ i + 1 < max_iterations
             THEN /\ pc' = "loop"
                  /\ resp' = resp
             ELSE /\ pc' = "done"
                  /\ resp' = Resp200(username, video_url, comments_found')
    /\ UNCHANGED <<data, video_url, username, video_id, head_result, heads, adapter>>

\* faulty variant of LoopStep: the loop runs one iteration too many
LoopStepOneMore(rs) ==
    /\ pc = "loop"
    /\ \E r \in rs :
          /\ Len(fetched) + Len(r.comments) <= MaxFetched
          /\ last' = r
          /\ gets' = gets + 1
          /\ i' = i + 1
          /\ comments_found' = comments_found \o ProcessPage(r.comments, username)
          /\ fetched' = fetched \o r.comments
          /\ cursor' = IF Continues(r) THEN r.cursor ELSE cursor
          /\ IF Continues(r) /\ i + 1 < max_iterations + 1
             THEN /\ pc' = "loop"
                  /\ resp' = resp
             ELSE /\ pc' = "done"
                  /\ resp' = Resp200(username, video_url, comments_found')
    /\ UNCHANGED <<data, video_url, username, video_id, head_result, heads, adapter>>

\* One iteration of the loop of lines 67-127, the response drawn from rs,
\* and, when the loop ends with it, the return of line 129 and the answer
\* of lines 188-195.  A request that fails, a status other than 200, JSON
\* that does not parse or is no object, an empty list and a falsy has_more
\* all break; otherwise the cursor is taken and the loop goes on while
\* range(max_iterations) lasts.
LoopStep(rs) ==
    /\ pc = "loop"
    /\ \E r \in rs :
          /\ Len(fetched) + Len(r.comments) <= MaxFetched
          /\ last' = r
          /\ gets' = gets + 1
          /\ i' = i + 1
          /\ comments_found' = comments_found \o ProcessPage(r.comments, username)
          /\ fetched' = fetched \o r.comments
          /\ cursor' = IF Continues(r) THEN r.cursor ELSE cursor
          /\ IF Continues(r) /\ i + 1 < max_iterations
             THEN /\ pc' = "loop"
                  /\ resp' = resp
             ELSE /\ pc' = "done"
                  /\ resp' = Resp200(username, video_url, comments_found')
    /\ UNCHANGED <<data, video_url, username, video_id, head_result, heads, adapter>>

\* the loop on the pages of the comment endpoint, which serves two records
FetchPage == LoopStep(Responses({RecBobHi, RecOther}, MaxPageLen))

\* the server waits for a request; nothing is kept from the last one
Idle ==
    /\ pc = "idle"
    /\ data = [null |-> TRUE, video_url |-> Absent, username |-> Absent, extra |-> FALSE]
    /\ video_url = <<>>
    /\ username = <<>>
    /\ video_id = None
    /\ i = 0
    /\ cursor = 0
    /\ comments_found = <<>>
    /\ resp = NoResp
    /\ fetched = <<>>
    /\ last = NoResponse
    /\ head_result = NoHead
    /\ heads = 0
    /\ gets = 0
    /\ adapter = FALSE

Init == Idle

\* a POST /scrape arrives; line 161 reads its body
Receive ==
    /\ pc = "idle"
    /\ pc' = "scrape"
    /\ data' \in Bodies
    /\ UNCHANGED <<video_url, username, video_id, i, cursor, comments_found, resp,
                   fetched, last, head_result, heads, gets, adapter>>

\* the response is sent and the server waits for the next request
NextRequest ==
    /\ pc = "done"
    /\ pc' = "idle"
    /\ data' = [null |-> TRUE, video_url |-> Absent, username |-> Absent, extra |-> FALSE]
    /\ video_url' = <<>>
    /\ username' = <<>>
    /\ video_id' = None
    /\ i' = 0
    /\ cursor' = 0
    /\ comments_found' = <<>>
    /\ resp' = NoResp
    /\ fetched' = <<>>
    /\ last' = NoResponse
    /\ head_result' = NoHead
    /\ heads' = 0
    /\ gets' = 0
    /\ adapter' = FALSE

Next == Receive \/ Scrape \/ Resolve \/ FetchPage \/ NextRequest

Spec == Init /\ [][Next]_vars

(* ----------------- extract_video_id over generated URLs ---------------- *)
\* the pieces the generated URLs are put together from
Tokens ==
    {VideoSeg, <<"1">>, <<"2", "3">>, <<"a">>, TikTokCom \o <<"/">>, <<"/", "7">>,
     <<"v", "m", ".">>, <<"\n">>}

RECURSIVE Concat(_)
Concat(ts) == IF ts = <<>> THEN <<>> ELSE Head(ts) \o Concat(Tail(ts))

GenUrls == {Concat(ts) : ts \in SeqsUpTo(Tokens, MaxTokens)}

\* scrape_tiktok_comments is entered with a generated URL
InitExtract ==
    /\ pc = "resolve"
    /\ data = [null |-> TRUE, video_url |-> Absent, username |-> Absent, extra |-> FALSE]
    /\ video_url \in GenUrls
    /\ username = Bob
    /\ video_id = None
    /\ i = 0
    /\ cursor = 0
    /\ comments_found = <<>>
    /\ resp = NoResp
    /\ fetched = <<>>
    /\ last = NoResponse
    /\ head_result = NoHead
    /\ heads = 0
    /\ gets = 0
    /\ adapter = FALSE

NextExtract == Resolve

SpecExtract == InitExtract /\ [][NextExtract]_vars

(* ------------------- the loop over the endpoint's pages --------------- *)
\* scrape_tiktok_comments has resolved the ID of UrlCanonical and enters the
\* loop of line 67 with the target "Bob"
InitLoop ==
    /\ pc = "loop"
    /\ data = [null |-> FALSE, video_url |-> Str(UrlCanonical),
               username |-> Str(<<"@">> \o Bob), extra |-> FALSE]
    /\ video_url = UrlCanonical
    /\ username = Bob
    /\ video_id = <<"1", "2", "3", "4", "5", "6", "7", "8", "9", "0">>
    /\ i = 0
    /\ cursor = 0
    /\ comments_found = <<>>
    /\ resp = NoResp
    /\ fetched = <<>>
    /\ last = NoResponse
    /\ head_result = NoHead
    /\ heads = 0
    /\ gets = 0
    /\ adapter = TRUE

\* the loop on pages of any of the records of RawComments
FetchAnyPage == LoopStep(Responses(RawComments, MaxPageLen))

NextLoop == FetchAnyPage

SpecLoop == InitLoop /\ [][NextLoop]_vars

(* ------------------- the record filter over one page ------------------ *)
\* no unique_id key, nickname "Bob"
RecNoUid ==
    RawComment(TRUE, "dict", Absent, Str(Bob), Str(<<"a">>), Num(<<"1">>), Str(<<"1", "7">>))

\* unique_id null, nickname "bob"
RecUidNull ==
    RawComment(TRUE, "dict", Null, Str(<<"b", "o", "b">>), Str(<<"b">>), Null, Null)

\* unique_id "bobby": the target is a part of it
RecBobby ==
    RawComment(TRUE, "dict", Str(<<"b", "o", "b", "b", "y">>), Absent, Str(<<"c">>), Absent, Absent)

\* unique_id "bo": a part of the target
RecBo ==
    RawComment(TRUE, "dict", Str(<<"b", "o">>), Str(<<"B", "o", "b">>), Str(<<"d">>), Absent, Absent)

\* unique_id is the number 7
RecUidNum ==
    RawComment(TRUE, "dict", Num(<<"7">>), Str(<<"b", "o", "b">>), Str(<<"e">>), Absent, Absent)

\* the list element is no mapping
RecNotDict == RawComment(FALSE, "absent", Absent, Absent, Absent, Absent, Absent)

\* no 'user' key
RecNoUser == RawComment(TRUE, "absent", Absent, Absent, Str(<<"f">>), Absent, Absent)

RichComments ==
    RawComments \cup {RecNoUid, RecUidNull, RecBobby, RecBo, RecUidNum, RecNotDict, RecNoUser}

\* the target_username values of the filter
Targets == {Bob, <<"b", "o", "b">>, <<"b", "O", "B">>, <<"b", "o">>, <<"a", "l">>}

\* the loop is entered with some target
InitFilter ==
    /\ pc = "loop"
    /\ data = [null |-> TRUE, video_url |-> Absent, username |-> Absent, extra |-> FALSE]
    /\ video_url = UrlCanonical
    /\ username \in Targets
    /\ video_id = <<"1">>
    /\ i = 0
    /\ cursor = 0
    /\ comments_found = <<>>
    /\ resp = NoResp
    /\ fetched = <<>>
    /\ last = NoResponse
    /\ head_result = NoHead
    /\ heads = 0
    /\ gets = 0
    /\ adapter = TRUE

\* one page of any records, the last one of the video
FilterPage ==
    LoopStep({[kind |-> "ok", comments |-> c, has_more |-> "false", cursor |-> 0] :
                 c \in SeqsUpTo(RichComments, MaxPageLen)})

NextFilter == FilterPage

SpecFilter == InitFilter /\ [][NextFilter]_vars

(* ============================ the properties ========================== *)
\* s holds pat at position k, character by character
OccursAt(s, pat, k) ==
    /\ k + Len(pat) - 1 <= Len(s)
    /\ \A j \in 1..Len(pat) : s[k + j - 1] = pat[j]

\* the places of url where "/video/" stands before a digit
VideoPlaces(url) ==
    {k \in 1..Len(url) :
        /\ OccursAt(url, VideoSeg, k)
        /\ k + Len(VideoSeg) <= Len(url)
        /\ url[k + Len(VideoSeg)] \in Digits}

\* id is the maximal run of digits that starts at position k of url
IsDigitRunAt(url, k, id) ==
    /\ id # <<>>
    /\ OccursAt(url, id, k)
    /\ \A j \in 1..Len(id) : id[j] \in Digits
    /\ (k + Len(id) <= Len(url) => url[k + Len(id)] \notin Digits)

\* url holds "tiktok.com/", then characters other than the newline, then a
\* "/" before a digit
HasTikTokDigits(url) ==
    \E k \in 1..Len(url) : \E j \in (k + Len(TikTokCom) + 1)..(Len(url) - 1) :
        /\ OccursAt(url, TikTokCom \o <<"/">>, k)
        /\ url[j] = "/"
        /\ url[j + 1] \in Digits
        /\ \A m \in (k + Len(TikTokCom) + 1)..(j - 1) : url[m] # "\n"

\* C8: for every URL that holds "/video/<digits>", extract_video_id returns
\* the maximal run of digits after the first "/video/" that stands before a
\* digit, and sends no request.
C8_VideoIdIsFirstDigitRun ==
    (pc # "resolve" /\ VideoPlaces(video_url) # {}) =>
        /\ heads = 0
        /\ ~head_result.sent
        /\ \E k \in VideoPlaces(video_url) :
              /\ \A m \in VideoPlaces(video_url) : k <= m
              /\ IsDigitRunAt(video_url, k + Len(VideoSeg), video_id)

\* C8 happens: "tiktok.com//7/video/23" resolved to "23", although the
\* second pattern would capture "7"
C8_Witness ==
    /\ pc = "loop"
    /\ video_url = TikTokCom \o <<"/", "/", "7">> \o VideoSeg \o <<"2", "3">>
    /\ video_id = <<"2", "3">>

\* no pattern of extract_video_id matches the URL, and it is no short link
\* or its expansion failed or led to a URL without "/video/<digits>"
NoIdToExtract ==
    /\ VideoPlaces(video_url) = {}
    /\ ~HasTikTokDigits(video_url)
    /\ \/ \A k \in 1..Len(video_url) :
             ~OccursAt(video_url, VmHost, k) /\ ~OccursAt(video_url, VtHost, k)
       \/ head_result.sent /\ head_result.raises
       \/ head_result.sent /\ VideoPlaces(head_result.url) = {}

\* C9: when no video ID can be extracted, extract_video_id returns None (a
\* failed HEAD request raises nothing), no comment-list request is sent, and
\* POST /scrape answers 500 with success false and the error message.
C9_NoIdAnswers500 ==
    (adapter /\ NoIdToExtract) =>
        /\ pc = "done"
        /\ video_id = None
        /\ gets = 0
        /\ last = NoResponse
        /\ resp.status = 500
        /\ resp.keys = {"success", "error"}
        /\ resp.success = FALSE
        /\ resp.error = <<"Error scraping comments: ", CouldNotExtract>>

\* C9 happens: the HEAD request of a short link raised
C9_Witness ==
    /\ pc = "done"
    /\ adapter
    /\ head_result.sent
    /\ head_result.raises
    /\ heads = 1
    /\ resp.status = 500

\* the request's video_url is missing or does not hold "tiktok.com"
LacksDomain(d) ==
    \/ d.video_url.t = "absent"
    \/ \A k \in 1..(Len(d.video_url.v) + 1) : ~OccursAt(d.video_url.v, TikTokCom, k)

Blank(s) == \A k \in 1..Len(s) : s[k] \in Whitespace

\* s is whitespace, then "@"s, then whitespace: nothing is left of it once
\* the whitespace is trimmed and the leading "@"s are stripped
BlankName(s) ==
    \E a \in 0..Len(s) : \E b \in a..Len(s) :
        /\ \A k \in 1..a : s[k] \in Whitespace
        /\ \A k \in (a + 1)..b : s[k] = "@"
        /\ \A k \in (b + 1)..Len(s) : s[k] \in Whitespace

\* the fields of the body that are missing or empty
Offending(d) ==
    {f \in {"video_url", "username"} :
        \/ d[f].t = "absent"
        \/ f = "video_url" /\ Blank(d[f].v)
        \/ f = "username" /\ BlankName(d[f].v)}

\* the error messages that name the field f
MessagesNaming(f) ==
    IF f = "video_url"
    THEN {<<"Missing video_url in request body">>, <<"video_url cannot be empty">>}
    ELSE {<<"Missing username in request body">>, <<"username cannot be empty">>}

EmptyBody(d) == d.null \/ (d.video_url.t = "absent" /\ d.username.t = "absent" /\ ~d.extra)

ExampleRun ==
    /\ pc = "done"
    /\ data.video_url = Str(UrlCanonical)
    /\ data.username = Str(<<"@">> \o Bob)
    /\ fetched = <<RecBobHi>>

\* C7, as claimed: the example is answered 200 with success true, username
\* "bob", count 1 and the one comment "hi".
C7_Original ==
    ExampleRun =>
        /\ resp.status = 200
        /\ resp.success = TRUE
        /\ resp.username = <<"b", "o", "b">>
        /\ resp.count = 1
        /\ Len(resp.comments) = 1
        /\ resp.comments[1].text = Str(Hi)

\* C7, amended: the example is answered 200 with success true, username
\* "Bob" (the "@" stripped, the case kept), count 1 and the one comment "hi".
C7_ExampleAnswer ==
    ExampleRun =>
        /\ resp.status = 200
        /\ "success" \in resp.keys
        /\ resp.success = TRUE
        /\ resp.username = Bob
        /\ resp.video_url = UrlCanonical
        /\ resp.count = 1
        /\ Len(resp.comments) = resp.count
        /\ resp.comments[1].text = Str(Hi)

\* C7 happens: the example run, ended by a page that reports no more
C7_Witness ==
    /\ ExampleRun
    /\ last.kind = "ok"
    /\ last.comments = <<RecBobHi>>
    /\ last.has_more = "false"
    /\ gets = 1

\* c and d are one letter, in either case, or one character
SameLetter(c, d) ==
    \/ c = d
    \/ \E k \in 1..Len(UpperChars) : {c, d} = {UpperChars[k], LowerChars[k]}

\* a and b are equal but for the case of their letters
EqualIgnoringCase(a, b) ==
    /\ Len(a) = Len(b)
    /\ \A k \in 1..Len(a) : SameLetter(a[k], b[k])

\* the author identity of the record r is the target: its non-empty
\* unique_id, or its nickname when unique_id is missing, null or empty
AuthoredBy(r, target) ==
    /\ r.dict
    /\ r.user.t = "dict"
    /\ IF r.user.unique_id.t = "str" /\ r.user.unique_id.v # <<>>
       THEN EqualIgnoringCase(r.user.unique_id.v, target)
       ELSE /\ r.user.unique_id.t \in {"absent", "null", "str"}
            /\ r.user.nickname.t = "str"
            /\ EqualIgnoringCase(r.user.nickname.v, target)

\* the comments of the records of recs that the target wrote, in order
MatchesOf(recs, target) ==
    LET Keep(r) == AuthoredBy(r, target)
        kept == SelectSeq(recs, Keep)
    IN  [k \in 1..Len(kept) |-> OutComment(kept[k])]

\* C4: a fetched record is in the output if and only if its author identity
\* equals the requested username but for the case; a record whose non-empty
\* unique_id differs is left out whatever its nickname, and so is one whose
\* identity only holds, or is held by, the username.
C4_OutputIsExactlyTheAuthors ==
    pc = "done" =>
        /\ comments_found = MatchesOf(fetched, username)
        /\ resp.comments = comments_found
        /\ resp.count
             = Cardinality({k \in 1..Len(fetched) : AuthoredBy(fetched[k], username)})

\* C4 happens: for the target "bOB", a record of unique_id "al" and nickname
\* "bob" is left out and a record without unique_id and of nickname "Bob" kept
C4_Witness ==
    /\ pc = "done"
    /\ username = <<"b", "O", "B">>
    /\ fetched = <<RecOther, RecNoUid>>
    /\ comments_found = <<OutComment(RecNoUid)>>

\* the response r lets the loop go on: a page with records and has_more true
GoesOn(r) == r.kind = "ok" /\ r.comments # <<>> /\ r.has_more = "true"

\* C1, as claimed: a loop whose pages all report has_more true stops after
\* exactly 5 requests.
C1_Original ==
    (pc = "done" /\ last.kind = "ok" /\ last.has_more = "true") => gets = 5

\* C1, amended: a page that reports has_more false ends the loop and the
\* matches up to and including that page are returned; a loop all of whose
\* responses are pages with records and has_more true stops after exactly 5
\* requests; a page without records ends the loop even when it reports
\* has_more true; there is never a 6th request.
C1_LoopStopsAtLastPageOrCap ==
    /\ gets <= 5
    /\ gets = i
    /\ (pc = "loop" /\ gets > 0) => GoesOn(last)
    /\ (last.kind = "ok" /\ last.has_more = "false") =>
          /\ pc = "done"
          /\ SubSeq(fetched, Len(fetched) - Len(last.comments) + 1, Len(fetched))
               = last.comments
          /\ comments_found = MatchesOf(fetched, username)
          /\ resp.status = 200
          /\ resp.comments = comments_found
    /\ (pc = "done" /\ GoesOn(last)) => gets = 5
    /\ (last.kind = "ok" /\ last.comments = <<>>) => pc = "done"

\* C1 happens: five pages with records and has_more true, and the loop is over
C1_Witness ==
    /\ pc = "done"
    /\ GoesOn(last)
    /\ gets = 5
    /\ Len(fetched) = 5
    /\ comments_found # <<>>

\* C2, as claimed: a timeout of the comment request is answered 500 with
\* the wrapped message in the error field.
C2_Original ==
    (pc = "done" /\ last.kind = "timeout") =>
        /\ resp.status = 500
        /\ "error" \in resp.keys
        /\ Len(resp.error) >= 1
        /\ resp.error[1] = "Error scraping comments: "

\* C2, amended: a timeout of the comment request ends the loop and is
\* answered 200 with success true and the matches of the pages before it,
\* without an error field; 500 with the wrapped message is the answer only
\* when no video ID was extracted, before any comment request.
C2_TimeoutAnswers200 ==
    /\ last.kind = "timeout" =>
          /\ pc = "done"
          /\ resp.status = 200
          /\ resp.success = TRUE
          /\ "error" \notin resp.keys
          /\ resp.comments = comments_found
          /\ resp.count = Len(comments_found)
    /\ resp.status = 500 =>
          /\ resp.error = <<"Error scraping comments: ", CouldNotExtract>>
          /\ video_id = None
          /\ gets = 0

\* C2 happens: the second comment request timed out after a page with a match
C2_Witness ==
    /\ pc = "done"
    /\ last.kind = "timeout"
    /\ gets = 2
    /\ fetched = <<RecBobHi>>
    /\ resp.status = 200
    /\ resp.count = 1

\* C3: any failure in the loop (a request that raises, a status other than
\* 200, JSON that does not parse or is no object) ends the loop, and the
\* matches of the earlier pages are returned and answered 200.
C3_FailureReturnsPartial ==
    last.kind \in {"timeout", "status", "badjson", "notdict"} =>
        /\ pc = "done"
        /\ gets <= 5
        /\ comments_found = MatchesOf(fetched, username)
        /\ resp.status = 200
        /\ resp.keys = {"success", "username", "video_url", "comments", "count", "message"}
        /\ resp.success = TRUE
        /\ resp.comments = comments_found
        /\ resp.count = Len(comments_found)

\* C3 happens: the third response is no JSON, after two pages with matches
C3_Witness ==
    /\ pc = "done"
    /\ last.kind = "badjson"
    /\ gets = 3
    /\ Len(comments_found) >= 2
    /\ resp.status = 200

\* processing the record raises: it is no mapping, its user is no mapping,
\* or the name taken from it is no string
ProcessingRaises(r) ==
    \/ ~r.dict
    \/ r.user.t = "null"
    \/ LET uid == r.user.unique_id
           nick == r.user.nickname
       IN  IF uid.t = "num" /\ uid.v # <<"0">> THEN TRUE
           ELSE IF uid.t = "str" /\ uid.v # <<>> THEN FALSE
           ELSE nick.t \in {"null", "num"}

\* the record lacks a field it must have: the user, both names, or the text
MissingField(r) ==
    /\ r.dict
    /\ \/ r.user.t = "absent"
       \/ r.text.t = "absent"
       \/ r.user.t = "dict" /\ r.user.unique_id.t = "absent" /\ r.user.nickname.t = "absent"

\* C10, as claimed: a record with a missing field, or whose processing
\* raises, yields no output comment.
C10_Original ==
    LET WellFormed(r) == ~MissingField(r) /\ ~ProcessingRaises(r)
    IN  comments_found = MatchesOf(SelectSeq(fetched, WellFormed), username)

\* C10, amended: a record whose processing raises yields no output comment
\* and no error, and the records after it, on its page and on the next
\* pages, are processed as without it; a record by the target that lacks its
\* text is not skipped: it is output with the text ''.
C10_RaisingRecordSkippedAlone ==
    LET Processable(r) == ~ProcessingRaises(r)
    IN  /\ comments_found = MatchesOf(SelectSeq(fetched, Processable), username)
        /\ Len(comments_found)
             = Cardinality({k \in 1..Len(fetched) : AuthoredBy(fetched[k], username)})
        /\ \A k \in 1..Len(comments_found) : comments_found[k].text.t = "str"
        /\ pc = "done" => resp.status = 200 /\ "error" \notin resp.keys

\* C10 happens: the first page is a record with a null user and a match, the
\* second a match without text, and both matches are in the output
C10_Witness ==
    /\ gets = 2
    /\ fetched = <<RecUserNull, RecBobHi, RecNickNoText>>
    /\ last.comments = <<RecNickNoText>>
    /\ comments_found = <<OutComment(RecBobHi), OutComment(RecNickNoText)>>
    /\ comments_found[2].text = Str(<<>>)

====
